---------------------------- MODULE Spec2Model ----------------------------
(***************************************************************************)
(* A model of smart_open's capability-negotiation core:                    *)
(*                                                                         *)
(*   - the I/O mode codec of smart_open/io_utils.py                        *)
(*     (io_mode_string_to_flags, io_mode_flags_to_string, IOMode),        *)
(*   - the plugin loader and the thread-safe registry of                   *)
(*     smart_open/plugins.py (discover_plugins, PluginRegistry),           *)
(*   - the codec selector get_compression_plugin of io_utils.py.           *)
(*                                                                         *)
(* Strings whose characters the code inspects (mode strings, URI paths)    *)
(* are sequences of one-character strings; plugin names are strings.       *)
(***************************************************************************)
EXTENDS Integers, Sequences, FiniteSets, TLC

VARIABLES
    platform,      \* which os module the interpreter has: "posix" or "nt"
    mode_string,   \* the str handed to IOMode(...)
    mpc,           \* position of the mode-codec scenario
    io_mode,       \* IOMode(mode_string), or the exception it raised
    rendered,      \* str(io_mode), or the exception it raised
    reparsed,      \* IOMode(str(io_mode)), or the exception it raised
    other,         \* a second spelling of the mode, parsed and rendered
    wrapped,       \* what maybe_wrap_binary_stream returned
    registry,      \* PluginRegistry._registry
    lock,          \* PluginRegistry._lock, a threading.RLock
    pc,            \* each thread's position
    op,            \* each thread's current call and its arguments
    ep_iter,       \* discover_plugins: the entry points still to visit
    ep_src,        \* discover_plugins: the entry points the loop started on
    unloaded,      \* discover_plugins: the unloaded_plugins dict
    warned,        \* discover_plugins: the warnings this pass has issued
    gen,           \* discover_plugins: the number of this discovery pass
    result,        \* what each thread's call returned or raised
    ndiscover,     \* discovery passes started so far
    nforced,       \* calls of load_registered_plugins(force=True) so far
    iterator,      \* the generator object an iter_plugins() call returned
    nfailed        \* discovery passes that have raised so far

mode_vars ==
    <<platform, mode_string, mpc, io_mode, rendered, reparsed, other, wrapped>>

frame_vars == <<ep_iter, ep_src, unloaded, warned, gen>>

aux_vars == <<iterator, nfailed>>

reg_vars ==
    <<registry, lock, pc, op, ep_iter, ep_src, unloaded, warned, gen, result,
      ndiscover, nforced, iterator, nfailed>>

vars ==
    <<platform, mode_string, mpc, io_mode, rendered, reparsed, other, wrapped,
      registry, lock, pc, op, ep_iter, ep_src, unloaded, warned, gen, result,
      ndiscover, nforced, iterator, nfailed>>

(***************************************************************************)
(* Bounds of the model.                                                    *)
(***************************************************************************)
MaxModeLen == 3
MaxEntryPoints == 2
MaxDescriptors == 3
MaxReloads == 1
MaxFailures == 1

(***************************************************************************)
(* Python's bitwise operators on non-negative ints.                        *)
(***************************************************************************)
RECURSIVE BitAnd(_, _)
BitAnd(a, b) ==
    IF a = 0 \/ b = 0 THEN 0
    ELSE (a % 2) * (b % 2) + 2 * BitAnd(a \div 2, b \div 2)

RECURSIVE BitOr(_, _)
BitOr(a, b) ==
    IF a = 0 THEN b
    ELSE IF b = 0 THEN a
    ELSE (IF a % 2 = 1 \/ b % 2 = 1 THEN 1 ELSE 0) + 2 * BitOr(a \div 2, b \div 2)

\* Python's truth value of an int.
Truthy(n) == n /= 0

(***************************************************************************)
(* The os.O_* constants io_utils.py reads.  Their values are the           *)
(* platform's: Linux <fcntl.h> for "posix", the MSVC runtime for "nt".     *)
(* O_BINARY and O_TEXT exist on Windows only; the code reads them with     *)
(* getattr(os, ..., 0).                                                    *)
(***************************************************************************)
Platforms == {"posix", "nt"}

O_RDONLY == 0
O_WRONLY == 1
O_RDWR == 2
O_APPEND == IF platform = "posix" THEN 1024 ELSE 8
O_CREAT == IF platform = "posix" THEN 64 ELSE 256
O_TRUNC == 512
O_EXCL == IF platform = "posix" THEN 128 ELSE 1024
O_BINARY == IF platform = "posix" THEN 0 ELSE 32768
O_TEXT == IF platform = "posix" THEN 0 ELSE 16384

FLAGS_RONLY == O_RDONLY
FLAGS_RPLUS == O_RDWR
FLAGS_WONLY == BitOr(O_WRONLY, BitOr(O_CREAT, O_TRUNC))
FLAGS_WPLUS == BitOr(O_RDWR, BitOr(O_CREAT, O_TRUNC))
FLAGS_AONLY == BitOr(O_APPEND, BitOr(O_WRONLY, O_CREAT))
FLAGS_APLUS == BitOr(O_APPEND, BitOr(O_RDWR, O_CREAT))

(***************************************************************************)
(* Mode strings.                                                           *)
(***************************************************************************)
ModeChars == {"r", "w", "a", "+", "x", "b", "t", "U", "q"}

\* The canonical spellings: verb, '+', 'x' (with w or a), 'b', in that order.
CanonicalModes ==
    { <<"r">>, <<"r", "+">>, <<"r", "b">>, <<"r", "+", "b">>,
      <<"w">>, <<"w", "+">>, <<"w", "x">>, <<"w", "b">>,
      <<"w", "+", "x">>, <<"w", "+", "b">>, <<"w", "x", "b">>,
      <<"w", "+", "x", "b">>,
      <<"a">>, <<"a", "+">>, <<"a", "x">>, <<"a", "b">>,
      <<"a", "+", "x">>, <<"a", "+", "b">>, <<"a", "x", "b">>,
      <<"a", "+", "x", "b">> }

ModeStrings ==
    UNION { [1..n -> ModeChars] : n \in 0..MaxModeLen } \cup CanonicalModes

\* Python's  c in string  for a one-character c.
Contains(c, string) == \E i \in 1..Len(string) : string[i] = c

\* What a call produced: a value, or the exception that left it.
Returned(flags, is_binary) ==
    [exc |-> "none", flags |-> flags, is_binary |-> is_binary]
Raised(exc) == [exc |-> exc, flags |-> 0, is_binary |-> FALSE]

BinaryTextConflictOnlyT(string) ==
    Contains("b", string) /\ Contains("t", string)

\* io_mode_string_to_flags, lines 47-48: the binary/text conflict test.
BinaryTextConflict(string) ==
    Contains("b", string) /\ (Contains("U", string) \/ Contains("t", string))

\* The verb branch of io_mode_string_to_flags, lines 57-76; string[0] of an
\* empty str raises IndexError.
VerbFlags(string) ==
    IF Len(string) = 0 THEN Raised("IndexError")
    ELSE IF string[1] = "r" THEN
        Returned(IF Contains("+", string) THEN FLAGS_RPLUS ELSE FLAGS_RONLY, FALSE)
    ELSE IF string[1] = "w" THEN
        Returned(IF Contains("+", string) THEN FLAGS_WPLUS ELSE FLAGS_WONLY, FALSE)
    ELSE IF string[1] = "a" THEN
        Returned(IF Contains("+", string) THEN FLAGS_APLUS ELSE FLAGS_AONLY, FALSE)
    ELSE Raised("ValueError")

io_mode_string_to_flags(string) ==
    IF BinaryTextConflict(string) THEN Raised("ValueError")
    ELSE
        LET flags0 == IF Contains("b", string) THEN O_BINARY ELSE O_TEXT
            verb == VerbFlags(string)
        IN  IF verb.exc /= "none" THEN verb
            ELSE LET flags1 == BitOr(flags0, verb.flags)
                 IN  Returned(IF Contains("x", string)
                                 THEN BitOr(flags1, O_EXCL) ELSE flags1,
                              FALSE)

io_mode_flags_to_string_strict(flags, binary) ==
    LET mode ==
            IF BitAnd(flags, FLAGS_WPLUS) = FLAGS_WPLUS THEN <<"w", "+">>
            ELSE IF BitAnd(flags, FLAGS_WONLY) = FLAGS_WONLY THEN <<"w">>
            ELSE IF BitAnd(flags, FLAGS_APLUS) = FLAGS_APLUS THEN <<"a", "+">>
            ELSE IF BitAnd(flags, FLAGS_RPLUS) = FLAGS_RPLUS THEN <<"r", "+">>
            ELSE IF BitAnd(flags, BitOr(O_WRONLY, O_RDWR)) = FLAGS_RONLY THEN <<"r">>
            ELSE <<>>
        withx == IF Truthy(BitAnd(flags, O_EXCL)) THEN Append(mode, "x") ELSE mode
        withb == IF Truthy(BitAnd(flags, O_BINARY)) \/ binary
                    THEN Append(withx, "b") ELSE withx
    IN  IF mode = <<>> THEN [exc |-> "ValueError", str |-> <<>>]
        ELSE [exc |-> "none", str |-> withb]

\* io_mode_flags_to_string: the if/elif chain picks the verb, then 'x', 'b'.
io_mode_flags_to_string(flags, binary) ==
    LET mode ==
            IF BitAnd(flags, FLAGS_WPLUS) = FLAGS_WPLUS THEN <<"w", "+">>
            ELSE IF BitAnd(flags, FLAGS_WONLY) = FLAGS_WONLY THEN <<"w">>
            ELSE IF BitAnd(flags, FLAGS_APLUS) = FLAGS_APLUS THEN <<"a", "+">>
            ELSE IF BitAnd(flags, FLAGS_RPLUS) = FLAGS_RPLUS THEN <<"r", "+">>
            ELSE IF BitAnd(flags, FLAGS_RONLY) = FLAGS_RONLY THEN <<"r">>
            ELSE <<>>
        withx == IF Truthy(BitAnd(flags, O_EXCL)) THEN Append(mode, "x") ELSE mode
        withb == IF Truthy(BitAnd(flags, O_BINARY)) \/ binary
                    THEN Append(withx, "b") ELSE withx
    IN  IF mode = <<>> THEN [exc |-> "ValueError", str |-> <<>>]
        ELSE [exc |-> "none", str |-> withb]

\* IOMode.__init__
IOMode(mode) ==
    LET r == io_mode_string_to_flags(mode)
    IN  IF r.exc /= "none" THEN r
        ELSE Returned(r.flags, Contains("b", mode))

\* The IOMode properties, as truth values.
IOMode_text(m) == ~m.is_binary
IOMode_binary(m) == m.is_binary
IOMode_read(m) ==
    Truthy(BitAnd(m.flags, O_RDONLY)) \/ BitAnd(m.flags, O_RDWR) /= 0
IOMode_write(m) ==
    Truthy(BitAnd(m.flags, O_WRONLY)) \/ BitAnd(m.flags, O_RDWR) /= 0
IOMode_append(m) == BitAnd(m.flags, O_APPEND) /= 0
IOMode_create(m) == BitAnd(m.flags, O_CREAT) /= 0
IOMode_exclAsCreate(m) == BitAnd(m.flags, O_CREAT) /= 0

IOMode_excl(m) == BitAnd(m.flags, O_EXCL) /= 0
IOMode_truncate(m) == BitAnd(m.flags, O_TRUNC) /= 0

\* IOMode.__str__
IOMode_str(m) == io_mode_flags_to_string(m.flags, m.is_binary)

\* Before a call has produced anything.
NoMode == Raised("unset")
NoStr == [exc |-> "unset", str |-> <<>>]
NoOther == [string |-> <<>>, mode |-> NoMode, str |-> NoStr]

\* A stream object is the sequence of its layers, outermost first; Python's
\* None where a stream may stand is NoStream.
NoStream == [is_none |-> TRUE, layers |-> <<>>]
Stream(layers) == [is_none |-> FALSE, layers |-> layers]
RawStream == Stream(<<"raw">>)

\* Before maybe_wrap_binary_stream has been called.
NotWrapped == [compression |-> "unset", out |-> NoStream]

\* maybe_wrap_binary_stream, lines 223-228: the body is the docstring and
\* nothing else, so the call returns None whatever it is given.
maybe_wrap_binary_stream(uri, mode, stream, compression) == NoStream

(***************************************************************************)
(* The plugin loader and the registry (smart_open/plugins.py).             *)
(***************************************************************************)
Threads == {"t1", "t2"}
NoThread == "nobody"

\* COMPRESSION_PLUGINS = PluginRegistry("compression", "compression codec")
namespace == "compression"
plugin_type == "compression codec"

\* The entry points an installation may register under the namespace.
\* Two classes claim the name "gz"; one claims ".gz".
Descriptors ==
    { [name |-> "gz", cls |-> "ClassA"],
      [name |-> "gz", cls |-> "ClassB"],
      [name |-> ".gz", cls |-> "ClassA"] }
Sources == UNION { [1..n -> Descriptors] : n \in 0..MaxEntryPoints }

\* A plugin object: plugin_class() called in discovery pass number gen.
\* Python's None where a plugin object may stand is NoInstance.
NoInstance == [name |-> "", cls |-> "None", gen |-> 0]
EmptyMap == [n \in {} |-> NoInstance]

\* _registry = attr.ib(..., default=None)
NoneRegistry == [is_none |-> TRUE, keys |-> <<>>, map |-> EmptyMap]

\* The generator of iter_plugins: "created" until its first next(), then
\* "suspended" at the yield with the dict its items iterator walks (snap)
\* and the number of pairs it has yielded (pos).  No generator: NoIterator.
NoIterator ==
    [state |-> "none", holder |-> NoThread, snap |-> NoneRegistry, pos |-> 0]

(***************************************************************************)
(* threading.RLock: an owner and a recursion count.                        *)
(***************************************************************************)
FreeLock == [owner |-> NoThread, count |-> 0]

LockAvailableToNewcomers(t) == lock.owner = NoThread

\* An RLock can be taken when it is free or when the taker already owns it.
LockAvailable(t) == lock.owner = NoThread \/ lock.owner = t

AcquiredNothing(l, t) == l

Acquired(l, t) == [owner |-> t, count |-> l.count + 1]

Released(l) ==
    IF l.count <= 1 THEN FreeLock ELSE [owner |-> l.owner, count |-> l.count - 1]

(***************************************************************************)
(* discover_plugins.  unloaded_plugins is a dict: here the sequence of its *)
(* (name, class) items in insertion order.                                 *)
(***************************************************************************)
DictHas(d, name) == \E i \in 1..Len(d) : d[i].name = name

DictGet(d, name) == d[CHOOSE i \in 1..Len(d) : d[i].name = name].cls

PluginConflictWarning(protocol, plugin_kind, existing_class, conflicting_class) ==
    [category |-> "PluginConflictWarning", protocol |-> protocol,
     plugin_kind |-> plugin_kind, existing_class |-> existing_class,
     conflicting_class |-> conflicting_class]

RecordPluginLastWins(d, ep) ==
    IF ~DictHas(d, ep.name) THEN Append(d, ep)
    ELSE [i \in 1..Len(d) |-> IF d[i].name = ep.name THEN ep ELSE d[i]]

\* The loop body, lines 260-272: the dict after visiting entry point ep.
RecordPlugin(d, ep) ==
    IF ~DictHas(d, ep.name) THEN Append(d, ep) ELSE d

\* The loop body, lines 265-272: the warnings after visiting entry point ep.
WarnConflict(w, d, ep) ==
    IF ~DictHas(d, ep.name) THEN w
    ELSE Append(w, PluginConflictWarning(ep.name, plugin_type,
                                         DictGet(d, ep.name), ep.cls))

InstantiateAllButLast(d, g) ==
    [is_none |-> FALSE,
     keys |-> [i \in 1..(Len(d) - 1) |-> d[i].name],
     map |-> [n \in { d[i].name : i \in 1..(Len(d) - 1) } |->
                 [name |-> n, cls |-> DictGet(d, n), gen |-> g]]]

\* The dict comprehension of lines 274-276: one plugin_class() per item.
Instantiate(d, g) ==
    [is_none |-> FALSE,
     keys |-> [i \in 1..Len(d) |-> d[i].name],
     map |-> [n \in { d[i].name : i \in 1..Len(d) } |->
                 [name |-> n, cls |-> DictGet(d, n), gen |-> g]]]

NeedsLoadIfFalsy(reg, force) == reg.is_none \/ reg.keys = <<>> \/ force

\* load_registered_plugins, line 322.
NeedsLoad(reg, force) == reg.is_none \/ force

(***************************************************************************)
(* posixpath.splitext(p)[-1], as genericpath._splitext computes it: the    *)
(* text from the last "." of the final path element on, "" if that element *)
(* has no "." after a character other than ".".                            *)
(***************************************************************************)
RFind(p, c) ==
    IF \E i \in 1..Len(p) : p[i] = c
        THEN CHOOSE i \in 1..Len(p) :
                 p[i] = c /\ \A j \in (i + 1)..Len(p) : p[j] /= c
        ELSE 0

splitext_ext(p) ==
    LET sepIndex == RFind(p, "/")
        dotIndex == RFind(p, ".")
    IN  IF /\ dotIndex > sepIndex
           /\ \E i \in (sepIndex + 1)..(dotIndex - 1) : p[i] /= "."
            THEN SubSeq(p, dotIndex, Len(p))
            ELSE <<>>

RECURSIVE Join(_)
Join(s) == IF s = <<>> THEN "" ELSE Head(s) \o Join(Tail(s))

\* get_compression_plugin, line 216: the name looked up in the registry.
Extension(uri_path) == Join(splitext_ext(uri_path))

(***************************************************************************)
(* Calls.                                                                  *)
(***************************************************************************)
QueryNames == {"gz"}

UriPaths ==
    { <<"/", "d", "/", "f", ".", "g", "z">>,
      <<"/", "d", ".", "x", "/", "f">> }

NoPath == <<>>

NoOp == [fn |-> "none", name |-> "", force |-> FALSE, path |-> NoPath,
         during_reload |-> FALSE, after_has |-> FALSE]

MkOp(fn, name, force, path) ==
    [fn |-> fn, name |-> name, force |-> force, path |-> path,
     during_reload |-> FALSE, after_has |-> FALSE]

LazyCalls ==
    { MkOp("get_plugin", n, FALSE, NoPath) : n \in QueryNames }
    \cup { MkOp("has_plugin", n, FALSE, NoPath) : n \in QueryNames }
    \cup { MkOp("list_plugin_names", "", FALSE, NoPath) }
    \cup { MkOp("load_registered_plugins", "", FALSE, NoPath) }
    \cup { MkOp("get_compression_plugin", Extension(p), FALSE, p) : p \in UriPaths }

Calls == LazyCalls \cup { MkOp("load_registered_plugins", "", TRUE, NoPath) }

\* What a call gave its caller.
NoResult ==
    [kind |-> "none", exc |-> "", inst |-> NoInstance, flag |-> FALSE,
     names |-> <<>>, name |-> "", entry_point |-> ""]

ReturnNone == [NoResult EXCEPT !.kind = "return"]
ReturnInstance(i) == [NoResult EXCEPT !.kind = "return", !.inst = i]
ReturnBool(b) == [NoResult EXCEPT !.kind = "return", !.flag = b]
ReturnList(l) == [NoResult EXCEPT !.kind = "return", !.names = l]
RaiseTypeError == [NoResult EXCEPT !.kind = "raise", !.exc = "TypeError"]
ReturnPair(name, i) == [NoResult EXCEPT !.kind = "return", !.name = name, !.inst = i]
Raise(exc) == [NoResult EXCEPT !.kind = "raise", !.exc = exc]

NoSuchPluginErrorSwapped(name, entry_point) ==
    [NoResult EXCEPT !.kind = "raise", !.exc = "NoSuchPluginError",
                     !.name = entry_point, !.entry_point = name]

\* NoSuchPluginError.__init__, lines 231-236.
NoSuchPluginError(name, entry_point) ==
    [NoResult EXCEPT !.kind = "raise", !.exc = "NoSuchPluginError",
                     !.name = name, !.entry_point = entry_point]

\* get_plugin, lines 340-342, on the registry reg.
GetPluginResult(reg, plugin_name) ==
    IF reg.is_none THEN RaiseTypeError
    ELSE IF plugin_name \notin DOMAIN reg.map
        THEN NoSuchPluginError(plugin_name, namespace)
        ELSE ReturnInstance(reg.map[plugin_name])

ExceptAnyError(r) == IF r.kind = "raise" THEN ReturnNone ELSE r

\* get_compression_plugin, lines 217-220: the try ... except around the
\* get_plugin call, applied to what the call returned or raised.
ExceptNoSuchPluginError(r) ==
    IF r.kind = "raise" /\ r.exc = "NoSuchPluginError" THEN ReturnNone ELSE r

\* get_compression_plugin, lines 217-220: NoSuchPluginError becomes None.
CompressionPluginResult(reg, extension) ==
    ExceptNoSuchPluginError(GetPluginResult(reg, extension))

\* An exception raised inside a call, as the call's caller gets it.
Propagated(o, exc) ==
    IF o.fn = "get_compression_plugin"
        THEN ExceptNoSuchPluginError(Raise(exc))
        ELSE Raise(exc)

\* has_plugin, line 367.
HasPluginResult(reg, plugin_name) ==
    IF reg.is_none THEN RaiseTypeError
    ELSE ReturnBool(plugin_name \in DOMAIN reg.map)

\* list_plugin_names, line 374.
ListPluginNamesResult(reg) ==
    IF reg.is_none THEN RaiseTypeError ELSE ReturnList(reg.keys)

CallResult(o, reg) ==
    CASE o.fn = "get_plugin" -> GetPluginResult(reg, o.name)
      [] o.fn = "get_compression_plugin" -> CompressionPluginResult(reg, o.name)
      [] o.fn = "has_plugin" -> HasPluginResult(reg, o.name)
      [] o.fn = "list_plugin_names" -> ListPluginNamesResult(reg)
      [] OTHER -> ReturnNone


(***************************************************************************)
(* The registry's state machine.  A thread is "idle" between calls; inside *)
(* a call it stands before                                                 *)
(*   "acquire"   the  with self._lock:  of get_plugin / has_plugin /       *)
(*               list_plugin_names,                                        *)
(*   "load"      the  with self._lock:  of load_registered_plugins,        *)
(*   "discover"  the next turn of the loop of discover_plugins,            *)
(*   "loaded"    the statements after self.load_registered_plugins(),      *)
(*   "done"      its caller, holding what the call returned or raised.     *)
(***************************************************************************)
InitRegistry ==
    /\ registry = NoneRegistry
    /\ lock = FreeLock
    /\ pc = [t \in Threads |-> "idle"]
    /\ op = [t \in Threads |-> NoOp]
    /\ ep_iter = [t \in Threads |-> <<>>]
    /\ ep_src = [t \in Threads |-> <<>>]
    /\ unloaded = [t \in Threads |-> <<>>]
    /\ warned = [t \in Threads |-> <<>>]
    /\ gen = [t \in Threads |-> 0]
    /\ result = [t \in Threads |-> NoResult]
    /\ ndiscover = 0
    /\ nforced = 0
    /\ iterator = NoIterator
    /\ nfailed = 0

ModeIdle ==
    /\ platform = "posix"
    /\ mode_string = <<>>
    /\ mpc = "off"
    /\ io_mode = NoMode
    /\ rendered = NoStr
    /\ reparsed = NoMode
    /\ other = NoOther
    /\ wrapped = NotWrapped

Init ==
    /\ ModeIdle
    /\ InitRegistry

\* Some thread is inside a forced load_registered_plugins.
ReloadInFlight ==
    \E u \in Threads : pc[u] = "discover" /\ op[u].force

\* A thread calls one of the registry's methods, or get_compression_plugin.
Invoke(t, o) ==
    /\ pc[t] = "idle"
    /\ o.force => nforced < MaxReloads
    /\ nforced' = IF o.force THEN nforced + 1 ELSE nforced
    /\ op' = [op EXCEPT ![t] = [o EXCEPT !.during_reload = ReloadInFlight]]
    /\ pc' = [pc EXCEPT ![t] =
                 IF o.fn = "load_registered_plugins" THEN "load" ELSE "acquire"]
    /\ UNCHANGED <<mode_vars, aux_vars, registry, lock, frame_vars, result, ndiscover>>

Call(t) == \E o \in Calls : Invoke(t, o)

CallLazy(t) == \E o \in LazyCalls : Invoke(t, o)

\* with self._lock:  in get_plugin, has_plugin, list_plugin_names.
Acquire(t) ==
    /\ pc[t] = "acquire"
    /\ LockAvailable(t)
    /\ lock' = Acquired(lock, t)
    /\ pc' = [pc EXCEPT ![t] = "load"]
    /\ UNCHANGED <<mode_vars, aux_vars, registry, op, frame_vars, result, ndiscover,
                   nforced>>

\* load_registered_plugins, lines 321-322: take the lock and test; with
\* nothing to load the lock is given back at once.  Otherwise discovery
\* starts on whatever entry points the installation registers at that time:
\* pkg_resources.iter_entry_points may yield any sequence of descriptors.
LoadEnterFrom(t, sources) ==
    /\ pc[t] = "load"
    /\ LockAvailable(t)
    /\ IF NeedsLoad(registry, op[t].force)
          THEN /\ lock' = Acquired(lock, t)
               /\ pc' = [pc EXCEPT ![t] = "discover"]
               /\ \E entry_points \in sources :
                      /\ ep_iter' = [ep_iter EXCEPT ![t] = entry_points]
                      /\ ep_src' = [ep_src EXCEPT ![t] = entry_points]
               /\ unloaded' = [unloaded EXCEPT ![t] = <<>>]
               /\ warned' = [warned EXCEPT ![t] = <<>>]
               /\ ndiscover' = ndiscover + 1
               /\ gen' = [gen EXCEPT ![t] = ndiscover + 1]
               /\ UNCHANGED result
          ELSE /\ lock' = Released(Acquired(lock, t))
               /\ pc' = [pc EXCEPT ![t] =
                            IF op[t].fn = "load_registered_plugins"
                                THEN "done" ELSE "loaded"]
               /\ result' = [result EXCEPT ![t] =
                                IF op[t].fn = "load_registered_plugins"
                                    THEN ReturnNone ELSE NoResult]
               /\ UNCHANGED <<frame_vars, ndiscover>>
    /\ UNCHANGED <<mode_vars, aux_vars, registry, op, nforced>>

LoadEnter(t) == LoadEnterFrom(t, Sources)

\* discover_plugins: one turn of the for loop.
DiscoverStep(t) ==
    /\ pc[t] = "discover"
    /\ ep_iter[t] /= <<>>
    /\ LET ep == Head(ep_iter[t])
       IN  /\ unloaded' = [unloaded EXCEPT ![t] = RecordPlugin(unloaded[t], ep)]
           /\ warned' = [warned EXCEPT ![t] = WarnConflict(warned[t], unloaded[t], ep)]
    /\ ep_iter' = [ep_iter EXCEPT ![t] = Tail(ep_iter[t])]
    /\ UNCHANGED <<mode_vars, aux_vars, registry, lock, pc, op, ep_src, gen, result,
                   ndiscover, nforced>>

\* discover_plugins returns the instantiated plugins; load_registered_plugins
\* stores them (line 323) and leaves its with block.
DiscoverReturn(t) ==
    /\ pc[t] = "discover"
    /\ ep_iter[t] = <<>>
    /\ registry' = Instantiate(unloaded[t], gen[t])
    /\ lock' = Released(lock)
    /\ pc' = [pc EXCEPT ![t] =
                 IF op[t].fn = "load_registered_plugins" THEN "done" ELSE "loaded"]
    /\ result' = [result EXCEPT ![t] =
                     IF op[t].fn = "load_registered_plugins"
                         THEN ReturnNone ELSE NoResult]
    /\ ep_src' = [ep_src EXCEPT ![t] = <<>>]
    /\ unloaded' = [unloaded EXCEPT ![t] = <<>>]
    /\ warned' = [warned EXCEPT ![t] = <<>>]
    /\ gen' = [gen EXCEPT ![t] = 0]
    /\ UNCHANGED <<mode_vars, aux_vars, op, ep_iter, ndiscover, nforced>>

\* The statements after self.load_registered_plugins(): read the mapping,
\* return or raise, and leave the with block.
Finish(t) ==
    /\ pc[t] = "loaded"
    /\ op[t].fn /= "iter_plugins"
    /\ result' = [result EXCEPT ![t] = CallResult(op[t], registry)]
    /\ lock' = Released(lock)
    /\ pc' = [pc EXCEPT ![t] = "done"]
    /\ UNCHANGED <<mode_vars, aux_vars, registry, op, frame_vars, ndiscover, nforced>>

\* The caller takes the outcome; the thread is free for its next call.
Return(t) ==
    /\ pc[t] = "done"
    /\ pc' = [pc EXCEPT ![t] = "idle"]
    /\ op' = [op EXCEPT ![t] = NoOp]
    /\ result' = [result EXCEPT ![t] = NoResult]
    /\ UNCHANGED <<mode_vars, aux_vars, registry, lock, frame_vars, ndiscover, nforced>>

(***************************************************************************)
(* Discovery that fails.  Inside discover_plugins three calls run code of  *)
(* the installation and may raise: entry_point.load() (line 261),          *)
(* warnings.warn(...) when the warning filter turns PluginConflictWarning   *)
(* into an error (line 268), and plugin_class() (line 275).  The exception *)
(* leaves discover_plugins, so the assignment of line 323 does not happen, *)
(* and unwinds the with blocks of the call.                                *)
(***************************************************************************)
DiscoverFailures(t) ==
    (IF ep_iter[t] /= <<>> THEN {"ImportError"} ELSE {})
    \cup (IF ep_iter[t] /= <<>> /\ DictHas(unloaded[t], Head(ep_iter[t]).name)
             THEN {"PluginConflictWarning"} ELSE {})
    \cup (IF ep_iter[t] = <<>> /\ unloaded[t] /= <<>>
             THEN {"RuntimeError"} ELSE {})

RegistryPartlyLoaded(reg, d, g) == Instantiate(d, g)

\* self._registry after  self._registry = discover_plugins(...)  raised.
RegistryAfterFailure(reg, d, g) == reg

\* The lock after the exception has left the with block of
\* load_registered_plugins and that of the method that called it.
Unwound(l, o) ==
    IF o.fn = "load_registered_plugins" THEN Released(l)
    ELSE Released(Released(l))

DiscoverFail(t) ==
    /\ pc[t] = "discover"
    /\ nfailed < MaxFailures
    /\ nfailed' = nfailed + 1
    /\ \E exc \in DiscoverFailures(t) :
           result' = [result EXCEPT ![t] = Propagated(op[t], exc)]
    /\ registry' = RegistryAfterFailure(registry, unloaded[t], gen[t])
    /\ lock' = Unwound(lock, op[t])
    /\ pc' = [pc EXCEPT ![t] = "done"]
    /\ iterator' = IF op[t].fn = "iter_plugins" THEN NoIterator ELSE iterator
    /\ ep_iter' = [ep_iter EXCEPT ![t] = <<>>]
    /\ ep_src' = [ep_src EXCEPT ![t] = <<>>]
    /\ unloaded' = [unloaded EXCEPT ![t] = <<>>]
    /\ warned' = [warned EXCEPT ![t] = <<>>]
    /\ gen' = [gen EXCEPT ![t] = 0]
    /\ UNCHANGED <<mode_vars, op, ndiscover, nforced>>

(***************************************************************************)
(* iter_plugins, lines 383-386.  The call returns a generator and runs     *)
(* nothing; the body runs inside next(): the first next() takes the lock,  *)
(* loads, starts walking the dict and stops at the yield, inside the with  *)
(* block; every later next() resumes there.                                *)
(***************************************************************************)
ItemsOfLive(snap, reg) == reg

\* six.iteritems(self._registry) is evaluated once, when the for loop
\* starts: the loop walks that dict object, whatever self._registry is
\* bound to later.
ItemsOf(snap, reg) == snap

IterCall == MkOp("iter_plugins", "", FALSE, NoPath)

\* generator = registry.iter_plugins()
IterCreate(t) ==
    /\ pc[t] = "idle"
    /\ iterator.state = "none"
    /\ iterator' = [NoIterator EXCEPT !.state = "created", !.holder = t]
    /\ UNCHANGED <<mode_vars, registry, lock, pc, op, frame_vars, result,
                   ndiscover, nforced, nfailed>>

\* The first next(generator): the body starts at  with self._lock:
IterStart(t) ==
    /\ iterator.state = "created"
    /\ iterator.holder = t
    /\ Invoke(t, IterCall)

\* The for loop takes its next item from the dict it walks and yields it,
\* the lock still held; with no item left the with block is left, the lock
\* released, and next() raises StopIteration.
IterAdvance(t, it) ==
    LET items == ItemsOf(it.snap, registry)
    IN  /\ IF it.pos < Len(items.keys)
              THEN /\ iterator' = [it EXCEPT !.state = "suspended",
                                             !.pos = it.pos + 1]
                   /\ result' = [result EXCEPT ![t] =
                                    ReturnPair(items.keys[it.pos + 1],
                                               items.map[items.keys[it.pos + 1]])]
                   /\ lock' = lock
              ELSE /\ iterator' = NoIterator
                   /\ result' = [result EXCEPT ![t] = Raise("StopIteration")]
                   /\ lock' = Released(lock)
        /\ pc' = [pc EXCEPT ![t] = "done"]

\* The first next(), after self.load_registered_plugins() has returned.
IterFirst(t) ==
    /\ pc[t] = "loaded"
    /\ op[t].fn = "iter_plugins"
    /\ IterAdvance(t, [iterator EXCEPT !.snap = registry])
    /\ UNCHANGED <<mode_vars, registry, op, frame_vars, ndiscover, nforced,
                   nfailed>>

\* A later next(generator), by the thread that holds the generator.
IterResume(t) ==
    /\ pc[t] = "idle"
    /\ iterator.state = "suspended"
    /\ iterator.holder = t
    /\ IterAdvance(t, iterator)
    /\ op' = [op EXCEPT ![t] = IterCall]
    /\ UNCHANGED <<mode_vars, registry, frame_vars, ndiscover, nforced,
                   nfailed>>

Next ==
    \/ \E t \in Threads :
           \/ Call(t)
           \/ Acquire(t)
           \/ LoadEnter(t)
           \/ DiscoverStep(t)
           \/ DiscoverReturn(t)
           \/ Finish(t)
           \/ Return(t)

Spec == Init /\ [][Next]_vars

\* The registry's own methods under a fair scheduler, on installations
\* with no entry point, one, or two of them with one name or two: a thread
\* inside a call keeps running (discovery terminates), and a thread waiting
\* for the lock gets it if the lock is free again and again.  Callers need
\* not call again.
RegistryCalls ==
    { o \in Calls : o.fn /= "get_compression_plugin" }

FewSources ==
    { <<>>,
      << [name |-> "gz", cls |-> "ClassA"] >>,
      << [name |-> "gz", cls |-> "ClassA"], [name |-> "gz", cls |-> "ClassB"] >>,
      << [name |-> "gz", cls |-> "ClassA"], [name |-> ".gz", cls |-> "ClassA"] >> }

CallRegistry(t) == \E o \in RegistryCalls : Invoke(t, o)

LoadEnterFew(t) == LoadEnterFrom(t, FewSources)

NextFair ==
    \/ \E t \in Threads :
           \/ CallRegistry(t)
           \/ Acquire(t)
           \/ LoadEnterFew(t)
           \/ DiscoverStep(t)
           \/ DiscoverReturn(t)
           \/ Finish(t)
           \/ Return(t)

Fairness ==
    \A t \in Threads :
        /\ SF_vars(Acquire(t))
        /\ SF_vars(LoadEnterFew(t))
        /\ WF_vars(DiscoverStep(t))
        /\ WF_vars(DiscoverReturn(t))
        /\ WF_vars(Finish(t))

SpecFair == Init /\ [][NextFair]_vars /\ Fairness

\* The same registry when no caller ever passes force=True.
NextLazy ==
    \/ \E t \in Threads :
           \/ CallLazy(t)
           \/ Acquire(t)
           \/ LoadEnter(t)
           \/ DiscoverStep(t)
           \/ DiscoverReturn(t)
           \/ Finish(t)
           \/ Return(t)

SpecLazy == Init /\ [][NextLazy]_vars

\* The registry on installations whose plugins may fail to load; callers
\* load, reload, look a plugin up and select a codec.
FailCalls ==
    { o \in Calls : o.fn \notin {"has_plugin", "list_plugin_names"} }

CallMayFail(t) == \E o \in FailCalls : Invoke(t, o)

NextFail ==
    \/ \E t \in Threads :
           \/ CallMayFail(t)
           \/ Acquire(t)
           \/ LoadEnterFew(t)
           \/ DiscoverStep(t)
           \/ DiscoverReturn(t)
           \/ DiscoverFail(t)
           \/ Finish(t)
           \/ Return(t)

SpecFail == Init /\ [][NextFail]_vars

\* The use the note in has_plugin's docstring warns about:
\*     if registry.has_plugin(name): plugin = registry.get_plugin(name)
\* The caller that was told True calls get_plugin with the same name.
GetAfterHas(t) ==
    /\ pc[t] = "done"
    /\ op[t].fn = "has_plugin"
    /\ result[t].kind = "return"
    /\ result[t].flag
    /\ op' = [op EXCEPT ![t] =
                 [MkOp("get_plugin", op[t].name, FALSE, NoPath)
                     EXCEPT !.after_has = TRUE,
                            !.during_reload = ReloadInFlight]]
    /\ pc' = [pc EXCEPT ![t] = "acquire"]
    /\ result' = [result EXCEPT ![t] = NoResult]
    /\ UNCHANGED <<mode_vars, aux_vars, registry, lock, frame_vars, ndiscover,
                   nforced>>

HasGetCalls ==
    { MkOp("has_plugin", n, FALSE, NoPath) : n \in QueryNames }
    \cup { MkOp("get_plugin", n, FALSE, NoPath) : n \in QueryNames }
    \cup { MkOp("load_registered_plugins", "", TRUE, NoPath) }

CallHasGet(t) == \E o \in HasGetCalls : Invoke(t, o)

NextHasGet ==
    \/ \E t \in Threads :
           \/ CallHasGet(t)
           \/ GetAfterHas(t)
           \/ Acquire(t)
           \/ LoadEnterFew(t)
           \/ DiscoverStep(t)
           \/ DiscoverReturn(t)
           \/ Finish(t)
           \/ Return(t)

SpecHasGet == Init /\ [][NextHasGet]_vars

\* The registry with callers that also iterate over it; besides iterating
\* they look a plugin up and force reloads.
IterCalls ==
    { MkOp("get_plugin", n, FALSE, NoPath) : n \in QueryNames }
    \cup { MkOp("load_registered_plugins", "", TRUE, NoPath) }

CallWhileIterating(t) == \E o \in IterCalls : Invoke(t, o)

NextIter ==
    \/ \E t \in Threads :
           \/ CallWhileIterating(t)
           \/ Acquire(t)
           \/ LoadEnter(t)
           \/ DiscoverStep(t)
           \/ DiscoverReturn(t)
           \/ Finish(t)
           \/ Return(t)
           \/ IterCreate(t)
           \/ IterStart(t)
           \/ IterFirst(t)
           \/ IterResume(t)

SpecIter == Init /\ [][NextIter]_vars

\* The registry with callers that iterate over it, under the fair scheduler
\* of SpecFair: a next() in progress runs to its yield or to its end.  A
\* caller that holds a suspended generator is free to call next() again or
\* never to, so no fairness is asked of IterResume, nor of a new call.
NextSuspend ==
    \/ \E t \in Threads :
           \/ CallRegistry(t)
           \/ Acquire(t)
           \/ LoadEnterFew(t)
           \/ DiscoverStep(t)
           \/ DiscoverReturn(t)
           \/ Finish(t)
           \/ Return(t)
           \/ IterCreate(t)
           \/ IterStart(t)
           \/ IterFirst(t)
           \/ IterResume(t)

FairnessSuspend ==
    /\ Fairness
    /\ \A t \in Threads : WF_vars(IterFirst(t))

SpecSuspend == Init /\ [][NextSuspend]_vars /\ FairnessSuspend

(***************************************************************************)
(* The mode-codec scenario: construct IOMode(s), render it with str(),     *)
(* construct an IOMode from the rendering.                                 *)
(***************************************************************************)
InitMode ==
    /\ platform \in Platforms
    /\ mode_string \in ModeStrings
    /\ mpc = "start"
    /\ io_mode = NoMode
    /\ rendered = NoStr
    /\ reparsed = NoMode
    /\ other = NoOther
    /\ wrapped = NotWrapped
    /\ InitRegistry

Construct ==
    /\ mpc = "start"
    /\ io_mode' = IOMode(mode_string)
    /\ mpc' = "parsed"
    /\ UNCHANGED <<platform, mode_string, rendered, reparsed, other, wrapped,
                   reg_vars>>

Render ==
    /\ mpc = "parsed"
    /\ io_mode.exc = "none"
    /\ rendered' = IOMode_str(io_mode)
    /\ mpc' = "rendered"
    /\ UNCHANGED <<platform, mode_string, io_mode, reparsed, other, wrapped,
                   reg_vars>>

Reparse ==
    /\ mpc = "rendered"
    /\ rendered.exc = "none"
    /\ reparsed' = IOMode(rendered.str)
    /\ mpc' = "reparsed"
    /\ UNCHANGED <<platform, mode_string, io_mode, rendered, other, wrapped,
                   reg_vars>>

NextMode == Construct \/ Render \/ Reparse

SpecMode == InitMode /\ [][NextMode]_vars

(***************************************************************************)
(* More uses of the mode codec: after IOMode(s) is constructed its flags   *)
(* are rendered with either value of the binary argument, or the mode is   *)
(* rendered and a second spelling of it (same verb, same modifiers among   *)
(* '+', 'x', 'b') is parsed and rendered too, or the mode is handed to     *)
(* maybe_wrap_binary_stream with a raw stream.                             *)
(***************************************************************************)
RenderFlags ==
    /\ mpc = "parsed"
    /\ io_mode.exc = "none"
    /\ \E binary \in BOOLEAN :
           rendered' = io_mode_flags_to_string(io_mode.flags, binary)
    /\ mpc' = "flags_rendered"
    /\ UNCHANGED <<platform, mode_string, io_mode, reparsed, other, wrapped,
                   reg_vars>>

Modifiers(string) == { c \in {"+", "x", "b"} : Contains(c, string) }

Respells(string, string2) ==
    /\ Len(string) > 0
    /\ Len(string2) > 0
    /\ string2 /= string
    /\ string2[1] = string[1]
    /\ Modifiers(string2) = Modifiers(string)

ParseOther ==
    /\ mpc = "rendered"
    /\ \E string2 \in ModeStrings :
           /\ Respells(mode_string, string2)
           /\ IOMode(string2).exc = "none"
           /\ other' = [string |-> string2, mode |-> IOMode(string2),
                        str |-> IOMode_str(IOMode(string2))]
    /\ mpc' = "paired"
    /\ UNCHANGED <<platform, mode_string, io_mode, rendered, reparsed, wrapped,
                   reg_vars>>

\* The compression argument: the default "infer", None, or a plugin.
CompressionChoices == {"infer", "None", "plugin"}

Wrap ==
    /\ mpc = "parsed"
    /\ io_mode.exc = "none"
    /\ \E compression \in CompressionChoices, uri_path \in UriPaths :
           wrapped' = [compression |-> compression,
                       out |-> maybe_wrap_binary_stream(uri_path, io_mode,
                                                        RawStream, compression)]
    /\ mpc' = "wrapped"
    /\ UNCHANGED <<platform, mode_string, io_mode, rendered, reparsed, other,
                   reg_vars>>

NextCodec == Construct \/ Render \/ RenderFlags \/ Wrap

SpecCodec == InitMode /\ [][NextCodec]_vars

NextPair == Construct \/ Render \/ ParseOther

SpecPair == InitMode /\ [][NextPair]_vars

(***************************************************************************)
(* Properties of the mode codec (SpecMode, SpecCodec and SpecPair).         *)
(***************************************************************************)
\* The semantic axes of an IOMode, as its properties report them.
Axes(m) ==
    [read |-> IOMode_read(m), write |-> IOMode_write(m),
     append |-> IOMode_append(m), create |-> IOMode_create(m),
     excl |-> IOMode_excl(m), truncate |-> IOMode_truncate(m),
     binary |-> IOMode_binary(m)]

HasVerb(string) == Len(string) > 0 /\ string[1] \in {"r", "w", "a"}

\* C1: for every canonical mode string s (verb, then optional '+', then
\* optional 'x' with w or a, then optional 'b'), str(IOMode(s)) is exactly s.
C1_RoundTripCanonical ==
    (mpc \in {"rendered", "reparsed"} /\ mode_string \in CanonicalModes)
        => (rendered.exc = "none" /\ rendered.str = mode_string)

\* The encoding table of the verbs.
VerbTable ==
    [s \in { <<"r">>, <<"r", "+">>, <<"w">>, <<"w", "+">>, <<"a">>, <<"a", "+">> } |->
        CASE s = <<"r">> ->
                 [read |-> TRUE, write |-> FALSE, append |-> FALSE,
                  create |-> FALSE, truncate |-> FALSE]
          [] s = <<"r", "+">> ->
                 [read |-> TRUE, write |-> TRUE, append |-> FALSE,
                  create |-> FALSE, truncate |-> FALSE]
          [] s = <<"w">> ->
                 [read |-> FALSE, write |-> TRUE, append |-> FALSE,
                  create |-> TRUE, truncate |-> TRUE]
          [] s = <<"w", "+">> ->
                 [read |-> TRUE, write |-> TRUE, append |-> FALSE,
                  create |-> TRUE, truncate |-> TRUE]
          [] s = <<"a">> ->
                 [read |-> FALSE, write |-> TRUE, append |-> TRUE,
                  create |-> TRUE, truncate |-> FALSE]
          [] s = <<"a", "+">> ->
                 [read |-> TRUE, write |-> TRUE, append |-> TRUE,
                  create |-> TRUE, truncate |-> FALSE]]

\* C5: an IOMode built from each of r, r+, w, w+, a, a+ reports exactly the
\* read, write, append, create and truncate axes of the encoding table.
C5_VerbTable ==
    (mpc = "parsed" /\ mode_string \in DOMAIN VerbTable)
        => /\ io_mode.exc = "none"
           /\ IOMode_read(io_mode) = VerbTable[mode_string].read
           /\ IOMode_write(io_mode) = VerbTable[mode_string].write
           /\ IOMode_append(io_mode) = VerbTable[mode_string].append
           /\ IOMode_create(io_mode) = VerbTable[mode_string].create
           /\ IOMode_truncate(io_mode) = VerbTable[mode_string].truncate

\* C8: for every accepted mode string s, IOMode(str(IOMode(s))) is
\* constructed and agrees with IOMode(s) on every semantic axis.
C8_ReparseKeepsAxes ==
    /\ mpc = "rendered" => rendered.exc = "none"
    /\ mpc = "reparsed" =>
           (reparsed.exc = "none" /\ Axes(reparsed) = Axes(io_mode))

\* C9: parsing a mode string that does not start with r, w or a (the empty
\* string included) fails with ValueError and with no other error.
C9_NoVerbIsValueError ==
    (mpc = "parsed" /\ ~HasVerb(mode_string)) => io_mode.exc = "ValueError"

\* C10: every mode string holding 'b' together with 't' or 'U', in any
\* order, is rejected with ValueError; every accepted mode is binary exactly
\* when it is not text, and binary exactly when 'b' is in the string.
C10_BinaryTextExclusive ==
    mpc = "parsed" =>
        /\ (Contains("b", mode_string)
              /\ (Contains("t", mode_string) \/ Contains("U", mode_string)))
               => io_mode.exc = "ValueError"
        /\ io_mode.exc = "none" =>
               /\ IOMode_binary(io_mode) = ~IOMode_text(io_mode)
               /\ IOMode_binary(io_mode) = Contains("b", mode_string)

\* C10's case: a string starting with a verb whose 'U' comes before its 'b'
\* was rejected.
C10_Witness ==
    /\ mpc = "parsed"
    /\ HasVerb(mode_string)
    /\ \E i, j \in 1..Len(mode_string) :
           i < j /\ mode_string[i] = "U" /\ mode_string[j] = "b"
    /\ ~Contains("t", mode_string)
    /\ io_mode.exc = "ValueError"

\* C16 as claimed: every accepted mode with the exclusive-create axis set
\* has the create axis set.
C16_ExclImpliesCreate ==
    (mpc /= "start" /\ io_mode.exc = "none" /\ IOMode_excl(io_mode))
        => IOMode_create(io_mode)

\* C16 as amended: every string that starts with r, w or a and does not ask
\* for binary and text at once is accepted, with or without 'x'; an accepted
\* mode has the exclusive-create axis exactly when 'x' is in the string and
\* the create axis exactly when the verb is w or a, so excl implies create
\* for w and a only; "r+x" is accepted as read-write with excl and without
\* create, renders as "r+x", and parsing that string again gives the same
\* mode.
C16_ExclFollowsX ==
    /\ (mpc /= "start" /\ HasVerb(mode_string)
           /\ ~(Contains("b", mode_string)
                  /\ (Contains("t", mode_string) \/ Contains("U", mode_string))))
           => io_mode.exc = "none"
    /\ (mpc /= "start" /\ io_mode.exc = "none") =>
           /\ IOMode_excl(io_mode) = Contains("x", mode_string)
           /\ IOMode_create(io_mode) = (mode_string[1] \in {"w", "a"})
    /\ (mpc /= "start" /\ mode_string = <<"r", "+", "x">>) =>
           io_mode = Returned(BitOr(O_TEXT, BitOr(O_RDWR, O_EXCL)), FALSE)
    /\ (mpc = "reparsed" /\ mode_string = <<"r", "+", "x">>) =>
           (rendered.str = mode_string /\ reparsed = io_mode)

\* C16's case: "r+x" was accepted, with excl and without create, and
\* parsing its rendering "r+x" gave the same mode again.
C16_Witness ==
    /\ mpc = "reparsed"
    /\ mode_string = <<"r", "+", "x">>
    /\ io_mode.exc = "none"
    /\ IOMode_excl(io_mode)
    /\ ~IOMode_create(io_mode)
    /\ reparsed = io_mode

\* The layers the composition rule asks for, outermost first: a text layer
\* exactly in text mode, then a compression layer if a plugin is selected,
\* then the raw stream.
ExpectedLayers(mode, with_plugin) ==
    (IF IOMode_text(mode) THEN <<"text">> ELSE <<>>)
    \o (IF with_plugin THEN <<"compression">> ELSE <<>>)
    \o <<"raw">>

\* C17: maybe_wrap_binary_stream returns a stream: the raw stream, inside a
\* compression layer when a plugin is selected, inside a text layer exactly
\* when the mode is text; with no plugin and binary mode, the raw stream.
C17_LayerOrder ==
    mpc = "wrapped" =>
        /\ ~wrapped.out.is_none
        /\ wrapped.compression = "plugin" =>
               wrapped.out.layers = ExpectedLayers(io_mode, TRUE)
        /\ wrapped.compression = "None" =>
               wrapped.out.layers = ExpectedLayers(io_mode, FALSE)
        /\ wrapped.compression = "infer" =>
               wrapped.out.layers \in { ExpectedLayers(io_mode, TRUE),
                                        ExpectedLayers(io_mode, FALSE) }

\* The one spelling of a mode string's verb and modifiers in the order
\* verb, '+', 'x', 'b'.
Canon(string) ==
    <<string[1]>>
    \o (IF Contains("+", string) THEN <<"+">> ELSE <<>>)
    \o (IF Contains("x", string) THEN <<"x">> ELSE <<>>)
    \o (IF Contains("b", string) THEN <<"b">> ELSE <<>>)

\* C18: two accepted mode strings with the same verb and the same modifiers
\* among '+', 'x', 'b' parse to the same flags, and both render to the one
\* canonical string of that verb and those modifiers.
C18_ModifierOrderIrrelevant ==
    mpc = "paired" =>
        /\ other.mode.flags = io_mode.flags
        /\ rendered.exc = "none"
        /\ other.str = rendered
        /\ rendered.str = Canon(mode_string)

\* C19: io_mode_flags_to_string returns a non-empty mode string, and does
\* not raise, for the flags of every accepted mode string, with binary
\* False, True, or as the mode has it.
C19_RenderingTotal ==
    mpc \in {"rendered", "flags_rendered"} =>
        (rendered.exc = "none" /\ Len(rendered.str) >= 1
           /\ rendered.str[1] \in {"r", "w", "a"})

\* C19's case: the flags of an append-only text mode, which no branch of the
\* chain is written for, were rendered with binary=True.
C19_Witness ==
    /\ mpc = "flags_rendered"
    /\ io_mode.flags = BitOr(O_TEXT, FLAGS_AONLY)
    /\ ~io_mode.is_binary
    /\ rendered.exc = "none"
    /\ Contains("b", rendered.str)

(***************************************************************************)
(* discover_plugins on its own: one thread forces a load, over sequences   *)
(* of up to MaxDescriptors entry points.                                   *)
(***************************************************************************)
LongSources == UNION { [1..n -> Descriptors] : n \in 0..MaxDescriptors }

NextDiscover ==
    \/ Invoke("t1", MkOp("load_registered_plugins", "", TRUE, NoPath))
    \/ LoadEnterFrom("t1", LongSources)
    \/ DiscoverStep("t1")
    \/ DiscoverReturn("t1")
    \/ Return("t1")

SpecDiscover == Init /\ [][NextDiscover]_vars

(***************************************************************************)
(* Properties of the loader and the registry.                              *)
(***************************************************************************)
\* What one discovery pass over the descriptors src owes its caller, stated
\* from the descriptors alone: the names, and for each name the class of the
\* first descriptor carrying it.
NamesOf(src) == { src[i].name : i \in 1..Len(src) }

FirstIndex(src, n) ==
    CHOOSE i \in 1..Len(src) :
        src[i].name = n /\ \A j \in 1..(i - 1) : src[j].name /= n

ExpectedMap(src, g) ==
    [n \in NamesOf(src) |->
        [name |-> n, cls |-> src[FirstIndex(src, n)].cls, gen |-> g]]

\* The later descriptors of an already seen name.
Losers(src) ==
    { i \in 1..Len(src) : \E j \in 1..(i - 1) : src[j].name = src[i].name }

\* Thread t takes the step that ends discover_plugins and stores its result.
Installs(t) == pc[t] = "discover" /\ pc'[t] /= "discover"

\* Thread t takes the step that reads the mapping and returns or raises.
Reads(t) == pc[t] = "loaded" /\ pc'[t] = "done"

Readers == {"get_plugin", "has_plugin", "list_plugin_names"}

\* C2: whatever get_plugin, has_plugin or list_plugin_names reads while other
\* threads reload is a whole discovery result: the mapping is never None when
\* it is read, and it only ever changes by one step that replaces it with the
\* complete result of the pass that step ends.
C2_NoTornMapping ==
    /\ [](\A t \in Threads : pc[t] = "loaded" => ~registry.is_none)
    /\ [][registry' /= registry =>
             \E t \in Threads :
                 /\ Installs(t)
                 /\ ~registry'.is_none
                 /\ registry'.map = ExpectedMap(ep_src[t], gen[t])]_vars

\* C2's case: a get_plugin called while a forced reload was in flight has
\* returned an instance of that reload, the second discovery pass.
C2_Witness ==
    \E t \in Threads :
        /\ pc[t] = "done"
        /\ op[t].fn = "get_plugin"
        /\ op[t].during_reload
        /\ result[t].kind = "return"
        /\ result[t].inst.gen = 2

\* C3: when no caller forces a reload, discovery runs once, on first use:
\* no second pass ever starts, every call that got past its load finds the
\* registry loaded by that one pass, and a loaded mapping, empty or not,
\* never changes again.
C3_LazyLoadOnce ==
    /\ [](/\ ndiscover <= 1
          /\ \A t \in Threads :
                 pc[t] \in {"loaded", "done"} =>
                     (ndiscover = 1 /\ ~registry.is_none))
    /\ [][~registry.is_none => registry' = registry]_vars

\* C3's case: the one discovery returned an empty mapping, and both threads
\* have since completed a reading call on it.
C3_Witness ==
    /\ ~registry.is_none
    /\ registry.keys = <<>>
    /\ ndiscover = 1
    /\ \A t \in Threads : pc[t] = "done" /\ op[t].fn \in Readers

PathEndsWith(p, suffix) ==
    /\ Len(p) >= Len(suffix)
    /\ SubSeq(p, Len(p) - Len(suffix) + 1, Len(p)) = suffix

\* The final path element, the text after the last "/".
FinalElement(p) == SubSeq(p, RFind(p, "/") + 1, Len(p))

\* C4: for a URI path ending in ".gz", with a plugin registered as "gz",
\* get_compression_plugin returns that plugin; for a path whose final element
\* has no extension it returns None.
C4_ExtensionSelectsPlugin ==
    [][\A t \in Threads :
           (Reads(t) /\ op[t].fn = "get_compression_plugin") =>
               /\ (PathEndsWith(op[t].path, <<".", "g", "z">>)
                     /\ "gz" \in DOMAIN registry.map)
                      => result'[t] = ReturnInstance(registry.map["gz"])
               /\ ~Contains(".", FinalElement(op[t].path))
                      => result'[t] = ReturnNone]_vars

\* C6: get_plugin(name) reads a loaded registry; it returns the instance
\* mapped to name, or raises NoSuchPluginError carrying name and the
\* registry's namespace; either way the mapping is as it was, still loaded,
\* and the lock is free again.
C6_GetPluginOutcome ==
    [][\A t \in Threads :
           (Reads(t) /\ op[t].fn = "get_plugin") =>
               /\ ~registry.is_none
               /\ registry' = registry
               /\ lock' = FreeLock
               /\ IF op[t].name \in DOMAIN registry.map
                     THEN /\ result'[t].kind = "return"
                          /\ result'[t].inst = registry.map[op[t].name]
                     ELSE /\ result'[t].kind = "raise"
                          /\ result'[t].exc = "NoSuchPluginError"
                          /\ result'[t].name = op[t].name
                          /\ result'[t].entry_point = "compression"]_vars

\* C6's case: a get_plugin has failed with NoSuchPluginError, the registry
\* is loaded and the caller holds no lock.
C6_Witness ==
    \E t \in Threads :
        /\ pc[t] = "done"
        /\ op[t].fn = "get_plugin"
        /\ result[t].kind = "raise"
        /\ result[t].exc = "NoSuchPluginError"
        /\ ~registry.is_none
        /\ lock.owner /= t

\* C7: a discovery pass returns one instance per distinct name, made from the
\* first descriptor carrying the name; each later descriptor of a seen name
\* is dropped with exactly one PluginConflictWarning naming the kept and the
\* dropped class, in the order met, and the pass goes on to the descriptors
\* after it.
C7_FirstDiscoveredWins ==
    [][\A t \in Threads :
           Installs(t) =>
               /\ DOMAIN registry'.map = NamesOf(ep_src[t])
               /\ registry'.map = ExpectedMap(ep_src[t], gen[t])
               /\ Len(warned[t]) = Cardinality(Losers(ep_src[t]))
               /\ \A i \in Losers(ep_src[t]) :
                      LET k == Cardinality({ j \in Losers(ep_src[t]) : j <= i })
                          src == ep_src[t]
                      IN  warned[t][k] =
                              [category |-> "PluginConflictWarning",
                               protocol |-> src[i].name,
                               plugin_kind |-> "compression codec",
                               existing_class |->
                                   src[FirstIndex(src, src[i].name)].cls,
                               conflicting_class |-> src[i].cls]]_vars

\* C7's case: a pass has visited two descriptors named "gz" and then one
\* named ".gz" and is about to return: it kept the first class under "gz",
\* warned once about the second, and went on to record ".gz".
C7_Witness ==
    \E t \in Threads :
        /\ pc[t] = "discover"
        /\ ep_iter[t] = <<>>
        /\ ep_src[t] = << [name |-> "gz", cls |-> "ClassB"],
                          [name |-> "gz", cls |-> "ClassA"],
                          [name |-> ".gz", cls |-> "ClassA"] >>
        /\ Len(warned[t]) = 1
        /\ warned[t][1].existing_class = "ClassB"
        /\ warned[t][1].conflicting_class = "ClassA"
        /\ unloaded[t] = << [name |-> "gz", cls |-> "ClassB"],
                            [name |-> ".gz", cls |-> "ClassA"] >>

\* C11: any two successful get_plugin(name) calls on the registry, by any
\* threads, whatever happened in between (a forced reload included), returned
\* the same plugin instance: two callers holding results for one name hold one
\* object.
C11_OneInstancePerName ==
    \A t, u \in Threads :
        (/\ pc[t] = "done" /\ op[t].fn = "get_plugin"
         /\ pc[u] = "done" /\ op[u].fn = "get_plugin"
         /\ result[t].kind = "return" /\ result[u].kind = "return"
         /\ op[t].name = op[u].name)
            => result[t].inst = result[u].inst

\* The k-th (name, instance) pair of a mapping, in the dict's order.
PairAt(reg, k) == ReturnPair(reg.keys[k], reg.map[reg.keys[k]])

\* Thread t's next() produces its outcome in this step.
Produces(t) == pc[t] /= "done" /\ pc'[t] = "done" /\ op'[t].fn = "iter_plugins"

\* C12: iter_plugins() itself loads nothing and takes no lock; the first
\* next() finds the registry loaded and yields the first pair of the mapping
\* then in effect (or stops if it is empty); every later next() yields the
\* following pair of that same mapping, and stops after its last pair,
\* whatever the registry has been reloaded to since.
C12_IterSnapshot ==
    /\ [][(iterator.state = "none" /\ iterator'.state = "created") =>
              (registry' = registry /\ ndiscover' = ndiscover /\ lock' = lock)]_vars
    /\ [][\A t \in Threads :
              (Produces(t) /\ iterator.state = "created") =>
                  /\ ~registry.is_none
                  /\ IF registry.keys = <<>>
                        THEN result'[t] = Raise("StopIteration")
                        ELSE /\ result'[t] = PairAt(registry, 1)
                             /\ iterator'.snap = registry
                             /\ iterator'.pos = 1]_vars
    /\ [][\A t \in Threads :
              (Produces(t) /\ iterator.state = "suspended") =>
                  IF iterator.pos < Len(iterator.snap.keys)
                     THEN /\ result'[t] = PairAt(iterator.snap, iterator.pos + 1)
                          /\ iterator'.snap = iterator.snap
                          /\ iterator'.pos = iterator.pos + 1
                     ELSE result'[t] = Raise("StopIteration")]_vars
    /\ [][iterator.state = "suspended" =>
              (iterator'.state = "none" \/ iterator'.snap = iterator.snap)]_vars

\* C12's case: after the first pair was yielded the registry was reloaded to
\* another mapping, and the iterator has since yielded the second pair of
\* the mapping it started on.
C12_Witness ==
    \E t \in Threads :
        /\ pc[t] = "done"
        /\ op[t].fn = "iter_plugins"
        /\ iterator.state = "suspended"
        /\ iterator.pos = 2
        /\ result[t] = PairAt(iterator.snap, 2)
        /\ result[t].inst.gen = 1
        /\ ~registry.is_none
        /\ registry.keys /= iterator.snap.keys
        /\ ndiscover = 2

\* Thread t is inside a call of a registry method.
InCall(t) == pc[t] \in {"acquire", "load", "discover", "loaded"}

FailsIn(t) == pc[t] = "discover" /\ pc'[t] = "done" /\ nfailed' /= nfailed

DiscoveryErrors == {"ImportError", "PluginConflictWarning", "RuntimeError"}

\* C14: get_compression_plugin returns None whenever the loaded registry has
\* no plugin under the extension it looks up, and the plugin when it has
\* one; NoSuchPluginError never reaches its caller; an error raised by
\* discovery inside the call does reach the caller.
C14_AbsenceIsNone ==
    /\ [](\A t \in Threads :
              (pc[t] = "done" /\ op[t].fn = "get_compression_plugin")
                  => ~(result[t].kind = "raise"
                         /\ result[t].exc = "NoSuchPluginError"))
    /\ [][\A t \in Threads :
              (Reads(t) /\ op[t].fn = "get_compression_plugin") =>
                  /\ ~registry.is_none
                  /\ IF Extension(op[t].path) \in DOMAIN registry.map
                        THEN result'[t] =
                                 ReturnInstance(registry.map[Extension(op[t].path)])
                        ELSE result'[t] = ReturnNone]_vars
    /\ [][\A t \in Threads :
              (FailsIn(t) /\ op[t].fn = "get_compression_plugin") =>
                  /\ result'[t].kind = "raise"
                  /\ result'[t].exc \in DiscoveryErrors]_vars

\* C14's case: one get_compression_plugin on a path ending in ".gz" has
\* returned None from a loaded registry that holds another plugin but none
\* for that extension, and another one has raised the ImportError of the
\* discovery it ran.
C14_Witness ==
    \E t, u \in Threads :
        /\ pc[t] = "done"
        /\ op[t].fn = "get_compression_plugin"
        /\ Extension(op[t].path) = ".gz"
        /\ result[t] = ReturnNone
        /\ ~registry.is_none
        /\ DOMAIN registry.map = {"gz"}
        /\ pc[u] = "done"
        /\ op[u].fn = "get_compression_plugin"
        /\ result[u].kind = "raise"
        /\ result[u].exc = "ImportError"

\* C15: a get_plugin call holds the lock from its load to its return, so
\* the mapping it tests is the mapping it reads and no reload runs in
\* between: it returns the instance exactly when the name is in the mapping
\* at that moment.  (Two calls, has_plugin then get_plugin, give no such
\* guarantee: C15_Witness.)
C15_GetIsAtomic ==
    /\ [](\A t \in Threads :
              pc[t] = "loaded" =>
                  /\ lock.owner = t
                  /\ ~registry.is_none
                  /\ \A u \in Threads \ {t} : pc[u] \notin {"discover", "loaded"})
    /\ [][(\E t \in Threads : pc[t] = "loaded") => registry' = registry]_vars
    /\ [][\A t \in Threads :
              (Reads(t) /\ op[t].fn = "get_plugin") =>
                  IF op[t].name \in DOMAIN registry.map
                     THEN result'[t] = ReturnInstance(registry.map[op[t].name])
                     ELSE result'[t].exc = "NoSuchPluginError"]_vars

\* C15's case: a thread whose has_plugin(name) returned True called
\* get_plugin(name) next and got NoSuchPluginError: another thread's forced
\* reload installed a mapping without the name in between.
C15_Witness ==
    \E t \in Threads :
        /\ pc[t] = "done"
        /\ op[t].fn = "get_plugin"
        /\ op[t].after_has
        /\ result[t].kind = "raise"
        /\ result[t].exc = "NoSuchPluginError"
        /\ result[t].name = op[t].name
        /\ ~registry.is_none
        /\ op[t].name \notin DOMAIN registry.map
        /\ ndiscover = 2

\* C20: when discovery raises inside a call, on first use or on a forced
\* reload, the mapping is what it was before the call (None, or the whole
\* previous mapping), the lock is free, and the caller gets the error; and
\* a call runs discovery exactly when the registry is unloaded or force is
\* set, so a failed first use is retried by the next call and a failed
\* reload is not.
C20_FailedDiscoveryKeepsRegistry ==
    /\ [][\A t \in Threads :
              FailsIn(t) =>
                  /\ registry' = registry
                  /\ lock' = FreeLock
                  /\ result'[t].kind = "raise"
                  /\ result'[t].exc \in DiscoveryErrors]_vars
    /\ [][\A t \in Threads :
              (pc[t] = "load" /\ pc'[t] /= "load") =>
                  ((pc'[t] = "discover") <=> (registry.is_none \/ op[t].force))]_vars
    /\ [][registry' /= registry =>
              \E t \in Threads : Installs(t) /\ ~FailsIn(t)]_vars

\* C20's case: a forced reload has failed on the plugin constructor after
\* the registry had been loaded: the caller holds the error, the mapping of
\* the first pass is still in place, and the lock is free.
C20_Witness ==
    \E t \in Threads :
        /\ pc[t] = "done"
        /\ op[t].fn = "load_registered_plugins"
        /\ op[t].force
        /\ result[t].kind = "raise"
        /\ result[t].exc = "RuntimeError"
        /\ ~registry.is_none
        /\ registry.keys /= <<>>
        /\ \A n \in DOMAIN registry.map : registry.map[n].gen = 1
        /\ ndiscover = 2
        /\ lock = FreeLock


\* Thread t holds a generator suspended at its yield, having consumed at
\* least one and not all of the pairs, and is not inside a next().
SuspendedMidway(t) ==
    /\ iterator.state = "suspended"
    /\ iterator.holder = t
    /\ pc[t] \in {"idle", "done"}
    /\ 1 <= iterator.pos
    /\ iterator.pos < Len(iterator.snap.keys)

\* The lock is held only by a thread that is inside a registry operation.
LockHeldOnlyInsideCall == lock /= FreeLock => InCall(lock.owner)

\* C21: while a thread holds an iterator suspended midway, a get, has, list
\* or load call of any other thread eventually returns, and the lock is
\* given up only by a step of the thread that owns it.  (The claim's other
\* wording, that the lock is held only while a registry operation executes,
\* is LockHeldOnlyInsideCall; it is left out of the formula so that the
\* behaviour refuting it is one in which a caller stays blocked.)
C21_SuspendedIteratorDoesNotBlock ==
    /\ \A t, u \in Threads :
           (SuspendedMidway(t) /\ u /= t /\ InCall(u)) ~> (pc[u] = "done")
    /\ [][\A t \in Threads :
              (lock.owner = t /\ lock' /= lock /\ lock'.owner /= t)
                  => (pc'[t] /= pc[t] /\ lock' = FreeLock)]_vars

=============================================================================
